---------------------------- MODULE Spec2Model ----------------------------
(***************************************************************************)
(* gist-backup: the GitHub client of package github (src/cmd/cmd.go lines  *)
(* 62-272): GetGistsForUser, DownloadGist and DownloadAllGistsForUser, as  *)
(* a sequential program over an HTTP transport and a filesystem that may   *)
(* each fail at every operation.                                           *)
(***************************************************************************)
EXTENDS Naturals, Integers, Sequences, FiniteSets, TLC

\* ------------------------------------------------------------- bounds
\* Longest gist list the API answers with.
MaxGists == 2
\* How many times the caller of DownloadGist invokes it in a row (SpecTwice).
MaxRuns == 2

\* ------------------------------------------------------------- inputs
Root == "root"
Username == "alice"
Tokens == {"", "s3cr3t"}
GistIDs == {"g1", "g2", "g3"}
FileNames == {"a.txt", "metadata.json"}
\* Raw bytes a raw URL may serve.
Bodies == {<<"x">>, <<"y", "z">>}
StatusOK == "200 OK"
BadStatuses == {"404 Not Found"}
\* What the filesystem may answer to a failing call.
FsCauses == {"permission denied"}

\* ------------------------------------------------------------- state
VARIABLES
    token,      \* Client.token
    caller,     \* "all": DownloadAllGistsForUser runs; "gist": DownloadGist is called directly
    run,        \* number of the caller's invocation (1 under Spec)
    cancelled,  \* ctx.Done() is closed
    pc,         \* position of the program
    gists,      \* DownloadAllGistsForUser: the decoded list (gist IDs, in order)
    i,          \* DownloadAllGistsForUser: index of the range loop, 1-based
    err,        \* what the caller's invocation returned (<<>> is nil)
    gid,        \* DownloadGist: parameter gistID
    gfiles,     \* DownloadGist: keys of the decoded gist.Files
    remaining,  \* DownloadGist: keys the range loop has not visited
    cur,        \* DownloadGist: filename of the current iteration
    body,       \* DownloadGist: bytes the current fileResp.Body serves
    gerr,       \* DownloadGist: its return value
    dirs,       \* filesystem: the directories (paths)
    files,      \* filesystem: path -> content
    open,       \* open resources: response bodies and output files, counted by kind
    requests,   \* history: every request handed to httpClient.Do
    inflight,   \* the request httpClient.Do was last called with
    lastResp,   \* history: what the last httpClient.Do returned, and whether its body decoded
    served,     \* history: gist ID -> filename -> bytes served with 200 in the last download
    snap,       \* history: the gist directories as each successful DownloadGist left them
    calls,      \* history: the gist IDs DownloadGist was called with, in order
    prev        \* history: the previous invocation of DownloadGist (SpecTwice)

vars == <<token, caller, run, cancelled, pc, gists, i, err, gid, gfiles, remaining,
          cur, body, gerr, dirs, files, open, requests, inflight, lastResp, served,
          snap, calls, prev>>

\* ------------------------------------------------------------- values
NoErr == <<>>
NoFile == ""
NoBody == <<>>

\* filepath.Join(directory, name)
Join(dir, name) == Append(dir, name)
UserDir == Join(<<Root>>, Username)
\* Variant: the gist's files go to the destination itself (gistID is not joined).
GistDirFlat == UserDir
GistDir == Join(UserDir, gid)
FilePath == Join(GistDir, cur)
MetaPath == Join(GistDir, "metadata.json")

\* The directory entries of dir: the names of the files directly in it.
Entries(fs, dir) == {p[Len(p)] : p \in {q \in DOMAIN fs : SubSeq(q, 1, Len(q) - 1) = dir}}
\* The subdirectories of dir.
SubDirs(ds, dir) == {d \in ds : Len(d) = Len(dir) + 1 /\ SubSeq(d, 1, Len(dir)) = dir}
\* The part of the filesystem below dir.
Below(fs, dir) == [p \in {q \in DOMAIN fs : Len(q) > Len(dir) /\ SubSeq(q, 1, Len(dir)) = dir} |-> fs[p]]

\* Contents of a file: raw bytes, or the JSON of a gist record.
Raw(bytes) == [kind |-> "raw", id |-> "", names |-> {}, bytes |-> bytes]
\* json.MarshalIndent(gist, "", "  ")
MetadataBytes(id, names) == [kind |-> "json", id |-> id, names |-> names, bytes |-> <<>>]
\* What a write that failed half way leaves.
Truncated == [kind |-> "raw", id |-> "", names |-> {}, bytes |-> <<>>]

Prefixes(s) == {SubSeq(s, 1, k) : k \in 0..Len(s)}

\* URLs
ListURL(user) == <<"https://api.github.com/users", user, "gists">>
GistURL(id) == <<"https://api.github.com/gists", id>>
\* file.RawURL as the API gives it for file name of gist id.
RawURL(id, name) == <<"https://gist.githubusercontent.com/raw", id, name>>

\* The Authorization header the three requests set (lines 132-134, 171-173, 217-219).
AuthHeader == IF token # "" THEN {<<"Authorization", "token " \o token>>} ELSE {}
AcceptHeader == {<<"Accept", "application/vnd.github+json">>}

\* http.NewRequestWithContext(ctx, GET, url) with the headers set
ListRequest == [kind |-> "list", url |-> ListURL(Username), ctx |-> TRUE,
                headers |-> AuthHeader \cup AcceptHeader]
GistRequest == [kind |-> "detail", url |-> GistURL(gid), ctx |-> TRUE,
                headers |-> AuthHeader \cup AcceptHeader]
\* Variant: the raw fetch is built with http.NewRequest, without the caller's ctx.
FileRequestNoCtx(name) == [kind |-> "raw", url |-> RawURL(gid, name), ctx |-> FALSE,
                           headers |-> AuthHeader]
\* Variant: the raw fetch goes out without the Authorization header.
FileRequestNoAuth(name) == [kind |-> "raw", url |-> RawURL(gid, name), ctx |-> TRUE,
                            headers |-> {}]
FileRequest(name) == [kind |-> "raw", url |-> RawURL(gid, name), ctx |-> TRUE,
                      headers |-> AuthHeader]

\* Errors: a chain of frames, outermost first; a frame is a sequence of strings.
\* What http.Client.Do returns when the round trip fails, a *url.Error: the
\* method, the URL and the cause (the context's error once ctx is cancelled).
URLErr(req, cause) == << <<"Get">> \o req.url \o <<cause>> >>
CtxErr(req) == URLErr(req, "context canceled")
TransportErr(req) == URLErr(req, "connection refused")
\* What http.NewRequestWithContext returns for a URL that does not parse.
ParseErr(url) == << <<"parse">> \o url \o <<"invalid URL">> >>
\* What json's Decode returns for a body that is no JSON of the expected shape.
DecodeErr == << <<"invalid character">> >>
\* What reading a response body returns when the stream breaks.
ReadErr == << <<"unexpected EOF">> >>
CtxReadErr == << <<"context canceled">> >>
\* fmt.Errorf("GitHub API error: %s", resp.Status)
APIErr(status) == << <<"GitHub API error", status>> >>
\* fmt.Errorf("Failed to download file %s: %s", filename, fileResp.Status)
FileStatusErr(name, status) == << <<"Failed to download file", name, status>> >>
\* Variant: the error of DownloadGist is returned as it is.
WrapGistBare(id, e) == e
\* fmt.Errorf("Failed to download gist %s: %w", gist.ID, err)
WrapGist(id, e) == << <<"Failed to download gist", id>> >> \o e
\* *os.PathError: op, path, cause
PathErr(op, path, cause) == << <<op>> \o path \o <<cause>> >>

\* ------------------------------------------------------------- resources
NoneOpen == [listBody |-> 0, gistBody |-> 0, fileBody |-> 0, outFile |-> 0]
Opened(o, k) == [o EXCEPT ![k] = @ + 1]
Closed(o, k) == [o EXCEPT ![k] = IF @ > 0 THEN @ - 1 ELSE 0]

\* ------------------------------------------------------------- transport
\* What httpClient.Do may return for req: an error, or a response with a status.
\* A request that carries ctx fails with the context's error once ctx is cancelled.
DoResults(req) ==
    IF cancelled /\ req.ctx
    THEN {[kind |-> "error", status |-> "", cause |-> CtxErr(req), decoded |-> FALSE]}
    ELSE {[kind |-> "error", status |-> "", cause |-> TransportErr(req), decoded |-> FALSE]}
         \cup {[kind |-> "response", status |-> s, cause |-> NoErr, decoded |-> FALSE] :
                   s \in BadStatuses \cup {StatusOK}}

NoReq == [kind |-> "none", url |-> <<>>, ctx |-> FALSE, headers |-> {}]
NoResp == [kind |-> "none", status |-> "", cause |-> NoErr, decoded |-> FALSE]

\* httpClient.Do(req) is called.
Do(req) ==
    /\ inflight' = req
    /\ requests' = requests \cup {req}

\* Sequences of distinct gist IDs, at most MaxGists long: the lists the API answers with.
RECURSIVE ListsOfLen(_)
ListsOfLen(n) ==
    IF n = 0 THEN {<<>>}
    ELSE {Append(l, g) : l \in ListsOfLen(n - 1), g \in GistIDs}
GistLists == {l \in UNION {ListsOfLen(n) : n \in 0..MaxGists} :
                 \A a, b \in 1..Len(l) : a # b => l[a] # l[b]}
\* The file mappings a gist may have.
FileMaps == SUBSET FileNames

\* ------------------------------------------------------------- Init
InitCommon ==
    /\ token \in Tokens
    /\ cancelled = FALSE
    /\ run = 1
    /\ gists = <<>>
    /\ i = 1
    /\ err = NoErr
    /\ gfiles = {}
    /\ remaining = {}
    /\ cur = NoFile
    /\ body = NoBody
    /\ gerr = NoErr
    /\ dirs = {}
    /\ files = <<>>
    /\ open = NoneOpen
    /\ requests = {}
    /\ inflight = NoReq
    /\ lastResp = NoResp
    /\ served = <<>>
    /\ snap = <<>>
    /\ prev = [ok |-> FALSE, names |-> {}, before |-> {}]

\* cmd.Run: client.DownloadAllGistsForUser(ctx, username, dst)
Init ==
    /\ InitCommon
    /\ caller = "all"
    /\ pc = "list_send"
    /\ gid = ""
    /\ calls = <<>>

\* ------------------------------------------------------------- DownloadAllGistsForUser
\* Return of the caller's invocation.
Return(e) ==
    /\ pc' = "done"
    /\ err' = e

\* GetGistsForUser, lines 125-137: build the request, hand it to httpClient.Do.
ListSend ==
    /\ pc = "list_send"
    /\ Do(ListRequest)
    /\ pc' = "list_wait"
    /\ UNCHANGED <<token, caller, run, cancelled, gists, i, err, gid, gfiles, remaining,
                   cur, body, gerr, dirs, files, open, lastResp, served, snap, calls, prev>>

\* How reading a response body may break: the context's error once ctx is
\* cancelled, a broken stream otherwise.
BodyReadErr == IF cancelled THEN CtxReadErr ELSE ReadErr
\* What json.NewDecoder(resp.Body).Decode(&gists) may produce from a 200 body: a
\* list, json's error for a body that is no list, or the error of reading the body.
ListDecodes ==
    {[err |-> e, list |-> <<>>] : e \in {DecodeErr, BodyReadErr}}
    \cup {[err |-> NoErr, list |-> l] : l \in GistLists}
\* What json.NewDecoder(resp.Body).Decode(&gist) may produce from a 200 body.
GistDecodes ==
    {[err |-> e, names |-> {}] : e \in {DecodeErr, BodyReadErr}}
    \cup {[err |-> NoErr, names |-> m] : m \in FileMaps}

\* Variant: the status of the list response is not looked at, its body is decoded.
ListRecvAnyStatus ==
    /\ pc = "list_wait"
    /\ \E r \in DoResults(inflight) :
        /\ lastResp' = r
        /\ IF r.kind = "error"
           THEN /\ Return(r.cause)
                /\ UNCHANGED open
           ELSE /\ open' = Opened(open, "listBody")
                /\ pc' = "list_decode"
                /\ UNCHANGED err
    /\ UNCHANGED <<token, caller, run, cancelled, gists, i, gid, gfiles, remaining,
                   cur, body, gerr, dirs, files, requests, inflight, served, snap, calls, prev>>

\* GetGistsForUser, lines 137-145, and DownloadAllGistsForUser, lines 252-255:
\* httpClient.Do returns; an error or a status other than 200 is returned.
ListRecv ==
    /\ pc = "list_wait"
    /\ \E r \in DoResults(inflight) :
        /\ lastResp' = r
        /\ IF r.kind = "error"
           THEN /\ Return(r.cause)
                /\ UNCHANGED open
           ELSE IF r.status # StatusOK
           THEN \* defer resp.Body.Close()
                /\ Return(APIErr(r.status))
                /\ open' = Closed(Opened(open, "listBody"), "listBody")
           ELSE /\ open' = Opened(open, "listBody")
                /\ pc' = "list_decode"
                /\ UNCHANGED err
    /\ UNCHANGED <<token, caller, run, cancelled, gists, i, gid, gfiles, remaining,
                   cur, body, gerr, dirs, files, requests, inflight, served, snap, calls, prev>>

\* GetGistsForUser, lines 147-155, and DownloadAllGistsForUser, lines 252-255:
\* the body is read and decoded, then closed by the deferred Close.
ListDecode ==
    /\ pc = "list_decode"
    /\ open' = Closed(open, "listBody")
    /\ \E d \in ListDecodes :
          /\ lastResp' = [lastResp EXCEPT !.decoded = (d.err = NoErr)]
          /\ IF d.err # NoErr
             THEN /\ Return(d.err)
                  /\ UNCHANGED gists
             ELSE /\ gists' = d.list
                  /\ pc' = "mk_userdir"
                  /\ UNCHANGED err
    /\ UNCHANGED <<token, caller, run, cancelled, i, gid, gfiles, remaining,
                   cur, body, gerr, dirs, files, requests, inflight, served, snap, calls, prev>>

\* os.MkdirAll(path, 0755): path and its missing parents.
MkdirAll(ds, path) == ds \cup {SubSeq(path, 1, k) : k \in 1..Len(path)}
\* The components of path at which os.MkdirAll may fail: each one that is not
\* there yet, and path itself.
MkdirFailPoints(ds, path) ==
    {k \in 1..Len(path) : SubSeq(path, 1, k) \notin ds \/ k = Len(path)}
\* How os.MkdirAll(path, 0755) may end: nil with path and its parents made, or
\* the *os.PathError of the component whose mkdir failed, the parents before it made.
MkdirAllResults(ds, path) ==
    {[dirs |-> MkdirAll(ds, path), err |-> NoErr]}
    \cup {[dirs |-> ds \cup {SubSeq(path, 1, j) : j \in 1..(k - 1)},
           err |-> PathErr("mkdir", SubSeq(path, 1, k), c)] :
             k \in MkdirFailPoints(ds, path), c \in FsCauses}
FsResults == {"ok"} \cup FsCauses

\* DownloadAllGistsForUser, lines 257-261.
MkUserDir ==
    /\ pc = "mk_userdir"
    /\ \E res \in MkdirAllResults(dirs, UserDir) :
          /\ dirs' = res.dirs
          /\ IF res.err = NoErr
             THEN /\ pc' = "loop"
                  /\ UNCHANGED err
             ELSE Return(res.err)
    /\ UNCHANGED <<token, caller, run, cancelled, gists, i, gid, gfiles, remaining,
                   cur, body, gerr, files, open, requests, inflight, lastResp, served, snap, calls, prev>>

\* The locals of a fresh call of DownloadGist.
EnterGist(id) ==
    /\ gid' = id
    /\ calls' = Append(calls, id)
    /\ gfiles' = {}
    /\ remaining' = {}
    /\ cur' = NoFile
    /\ body' = NoBody
    /\ gerr' = NoErr
    /\ pc' = "g_mkdir"

\* DownloadAllGistsForUser, lines 264-266: the next gist of the range loop.
LoopCall ==
    /\ pc = "loop"
    /\ i <= Len(gists)
    /\ EnterGist(gists[i])
    /\ UNCHANGED <<token, caller, run, cancelled, gists, i, err, dirs, files, open,
                   requests, inflight, lastResp, served, snap, prev>>

\* DownloadAllGistsForUser, lines 264 and 271: the range is exhausted, return nil.
LoopEnd ==
    /\ pc = "loop"
    /\ i > Len(gists)
    /\ Return(NoErr)
    /\ UNCHANGED <<token, caller, run, cancelled, gists, i, gid, gfiles, remaining,
                   cur, body, gerr, dirs, files, open, requests, inflight, lastResp, served, snap,
                   calls, prev>>

\* Variant: best effort, the loop notes the error and goes on with the next gist.
GistFailedContinue ==
    /\ pc = "g_ret"
    /\ caller = "all"
    /\ gerr # NoErr
    /\ err' = WrapGist(gists[i], gerr)
    /\ i' = i + 1
    /\ pc' = "loop"
    /\ UNCHANGED <<token, caller, run, cancelled, gists, gid, gfiles, remaining,
                   cur, body, gerr, dirs, files, open, requests, inflight, lastResp, served,
                   snap, calls, prev>>

\* DownloadAllGistsForUser, lines 266-268: DownloadGist returned an error.
GistFailed ==
    /\ pc = "g_ret"
    /\ caller = "all"
    /\ gerr # NoErr
    /\ Return(WrapGist(gists[i], gerr))
    /\ UNCHANGED <<token, caller, run, cancelled, gists, i, gid, gfiles, remaining,
                   cur, body, gerr, dirs, files, open, requests, inflight, lastResp, served, snap,
                   calls, prev>>

\* DownloadAllGistsForUser, lines 264-269: DownloadGist returned nil, go on.
GistDone ==
    /\ pc = "g_ret"
    /\ caller = "all"
    /\ gerr = NoErr
    /\ i' = i + 1
    /\ pc' = "loop"
    /\ UNCHANGED <<token, caller, run, cancelled, gists, err, gid, gfiles, remaining,
                   cur, body, gerr, dirs, files, open, requests, inflight, lastResp, served, snap,
                   calls, prev>>

\* ------------------------------------------------------------- DownloadGist
\* Return of DownloadGist with e; the deferred resp.Body.Close() runs when the
\* detail response was obtained (deferred = TRUE).
GistReturn(e, o, deferred) ==
    /\ pc' = "g_ret"
    /\ gerr' = e
    /\ open' = IF deferred THEN Closed(o, "gistBody") ELSE o
    /\ snap' = IF e = NoErr THEN Append(snap, Below(files, GistDir)) ELSE snap

\* DownloadGist, lines 159-162.
GistMkdir ==
    /\ pc = "g_mkdir"
    /\ served' = [g \in DOMAIN served \ {gid} |-> served[g]]
    /\ \E res \in MkdirAllResults(dirs, UserDir) :
          /\ dirs' = res.dirs
          /\ IF res.err = NoErr
             THEN /\ pc' = "g_send"
                  /\ UNCHANGED <<gerr, open, snap>>
             ELSE GistReturn(res.err, open, FALSE)
    /\ UNCHANGED <<token, caller, run, cancelled, gists, i, err, gid, gfiles, remaining,
                   cur, body, files, requests, inflight, lastResp, calls, prev>>

\* DownloadGist, lines 164-176: build the request, hand it to httpClient.Do.
GistSend ==
    /\ pc = "g_send"
    /\ Do(GistRequest)
    /\ pc' = "g_wait"
    /\ UNCHANGED <<token, caller, run, cancelled, gists, i, err, gid, gfiles, remaining,
                   cur, body, gerr, dirs, files, open, lastResp, served, snap, calls, prev>>

\* DownloadGist, lines 176-184: httpClient.Do returns; an error or a status
\* other than 200 is returned.
GistRecv ==
    /\ pc = "g_wait"
    /\ \E r \in DoResults(inflight) :
        /\ lastResp' = r
        /\ IF r.kind = "error"
           THEN GistReturn(r.cause, open, FALSE)
           ELSE IF r.status # StatusOK
           THEN GistReturn(APIErr(r.status), Opened(open, "gistBody"), TRUE)
           ELSE /\ open' = Opened(open, "gistBody")
                /\ pc' = "g_decode"
                /\ UNCHANGED <<gerr, snap>>
    /\ UNCHANGED <<token, caller, run, cancelled, gists, i, err, gid, gfiles, remaining,
                   cur, body, dirs, files, requests, inflight, served, calls, prev>>

\* DownloadGist, lines 186-189: the body is read and decoded.
GistDecode ==
    /\ pc = "g_decode"
    /\ \E d \in GistDecodes :
          /\ lastResp' = [lastResp EXCEPT !.decoded = (d.err = NoErr)]
          /\ IF d.err # NoErr
             THEN /\ GistReturn(d.err, open, TRUE)
                  /\ UNCHANGED <<gfiles, remaining>>
             ELSE /\ gfiles' = d.names
                  /\ remaining' = d.names
                  /\ pc' = "g_mkgistdir"
                  /\ UNCHANGED <<gerr, open, snap>>
    /\ UNCHANGED <<token, caller, run, cancelled, gists, i, err, gid, cur, body, dirs,
                   files, requests, inflight, served, calls, prev>>

\* DownloadGist, lines 191-195.
MkGistDir ==
    /\ pc = "g_mkgistdir"
    /\ \E res \in MkdirAllResults(dirs, GistDir) :
          /\ dirs' = res.dirs
          /\ IF res.err = NoErr
             THEN /\ pc' = "g_meta"
                  /\ UNCHANGED <<gerr, open, snap>>
             ELSE GistReturn(res.err, open, TRUE)
    /\ UNCHANGED <<token, caller, run, cancelled, gists, i, err, gid, gfiles, remaining,
                   cur, body, files, requests, inflight, lastResp, served, calls, prev>>

\* Variant: a file that exists is left as it is.
WriteAtKeep(fs, path, content) == IF path \in DOMAIN fs THEN fs ELSE (path :> content) @@ fs
\* The filesystem with content at path (created, or truncated and rewritten).
WriteAt(fs, path, content) == (path :> content) @@ fs

\* DownloadGist, lines 197-205: os.WriteFile(gistDir/metadata.json, metadataBytes, 0644).
\* It fails at the open (nothing changes) or at the write (the file is left cut).
WriteMeta ==
    /\ pc = "g_meta"
    /\ \E res \in FsResults, at \in {"open", "write"} :
          IF res = "ok"
          THEN /\ files' = WriteAt(files, MetaPath, MetadataBytes(gid, gfiles))
               /\ pc' = "f_loop"
               /\ UNCHANGED <<gerr, open, snap>>
          ELSE /\ files' = IF at = "open" THEN files ELSE WriteAt(files, MetaPath, Truncated)
               /\ GistReturn(PathErr(at, MetaPath, res), open, TRUE)
    /\ UNCHANGED <<token, caller, run, cancelled, gists, i, err, gid, gfiles, remaining,
                   cur, body, dirs, requests, inflight, lastResp, served, calls, prev>>

\* DownloadGist, lines 208-221: the range loop takes a key of gist.Files (in any
\* order: Go's map iteration), builds the request and hands it to httpClient.Do.
\* http.NewRequestWithContext fails on a raw URL that does not parse (lines 213-215).
FileSend ==
    /\ pc = "f_loop"
    /\ \E name \in remaining, parses \in BOOLEAN :
          /\ cur' = name
          /\ remaining' = remaining \ {name}
          /\ IF parses
             THEN /\ Do(FileRequest(name))
                  /\ pc' = "f_wait"
                  /\ UNCHANGED <<gerr, open, snap>>
             ELSE /\ GistReturn(ParseErr(RawURL(gid, name)), open, TRUE)
                  /\ UNCHANGED <<requests, inflight>>
    /\ body' = NoBody
    /\ UNCHANGED <<token, caller, run, cancelled, gists, i, err, gid, gfiles,
                   dirs, files, lastResp, served, calls, prev>>

\* DownloadGist, lines 208 and 246: the range is exhausted, return nil.
FileLoopEnd ==
    /\ pc = "f_loop"
    /\ remaining = {}
    /\ GistReturn(NoErr, open, TRUE)
    /\ UNCHANGED <<token, caller, run, cancelled, gists, i, err, gid, gfiles, remaining,
                   cur, body, dirs, files, requests, inflight, lastResp, served, calls, prev>>

\* Variant: the status of the raw response is not looked at, its body is written.
FileRecvAnyStatus ==
    /\ pc = "f_wait"
    /\ \E r \in DoResults(inflight) :
        /\ lastResp' = r
        /\ IF r.kind = "error"
           THEN /\ GistReturn(r.cause, open, TRUE)
                /\ UNCHANGED <<body, served>>
           ELSE \E b \in Bodies :
                   /\ body' = b
                   /\ served' = (gid :> ((cur :> b) @@ (IF gid \in DOMAIN served
                                                        THEN served[gid] ELSE <<>>)))
                                 @@ served
                   /\ open' = Opened(open, "fileBody")
                   /\ pc' = "f_create"
                   /\ UNCHANGED <<gerr, snap>>
    /\ UNCHANGED <<token, caller, run, cancelled, gists, i, err, gid, gfiles, remaining,
                   cur, dirs, files, requests, inflight, calls, prev>>

\* DownloadGist, lines 221-229.
FileRecv ==
    /\ pc = "f_wait"
    /\ \E r \in DoResults(inflight) :
        /\ lastResp' = r
        /\ IF r.kind = "error"
           THEN /\ GistReturn(r.cause, open, TRUE)
                /\ UNCHANGED <<body, served>>
           ELSE IF r.status # StatusOK
           THEN \* fileResp.Body.Close()
                /\ GistReturn(FileStatusErr(cur, r.status),
                              Closed(Opened(open, "fileBody"), "fileBody"), TRUE)
                /\ UNCHANGED <<body, served>>
           ELSE \E b \in Bodies :
                   /\ body' = b
                   /\ served' = (gid :> ((cur :> b) @@ (IF gid \in DOMAIN served
                                                        THEN served[gid] ELSE <<>>)))
                                 @@ served
                   /\ open' = Opened(open, "fileBody")
                   /\ pc' = "f_create"
                   /\ UNCHANGED <<gerr, snap>>
    /\ UNCHANGED <<token, caller, run, cancelled, gists, i, err, gid, gfiles, remaining,
                   cur, dirs, files, requests, inflight, calls, prev>>

\* Variant: when os.Create fails the response body is left open.
CreateFileLeak ==
    /\ pc = "f_create"
    /\ \E res \in FsResults :
          IF res = "ok"
          THEN /\ files' = WriteAt(files, FilePath, Raw(<<>>))
               /\ open' = Opened(open, "outFile")
               /\ pc' = "f_copy"
               /\ UNCHANGED <<gerr, snap>>
          ELSE /\ GistReturn(PathErr("open", FilePath, res), open, TRUE)
               /\ UNCHANGED files
    /\ UNCHANGED <<token, caller, run, cancelled, gists, i, err, gid, gfiles, remaining,
                   cur, body, dirs, requests, inflight, lastResp, served, calls, prev>>

\* DownloadGist, lines 231-235: os.Create(filePath) makes the file or truncates it.
CreateFile ==
    /\ pc = "f_create"
    /\ \E res \in FsResults :
          IF res = "ok"
          THEN /\ files' = WriteAt(files, FilePath, Raw(<<>>))
               /\ open' = Opened(open, "outFile")
               /\ pc' = "f_copy"
               /\ UNCHANGED <<gerr, snap>>
          ELSE \* fileResp.Body.Close()
               /\ GistReturn(PathErr("open", FilePath, res), Closed(open, "fileBody"), TRUE)
               /\ UNCHANGED files
    /\ UNCHANGED <<token, caller, run, cancelled, gists, i, err, gid, gfiles, remaining,
                   cur, body, dirs, requests, inflight, lastResp, served, calls, prev>>

\* How io.Copy(out, fileResp.Body) may end: nil, a read error of the body (the
\* context's once ctx is cancelled), or a write error of the file.
CopyResults ==
    {NoErr, BodyReadErr}
    \cup {PathErr("write", FilePath, c) : c \in FsCauses}

\* DownloadGist, lines 237-244: copy, close both, return the copy's error if any.
\* A failed copy leaves the bytes written so far.
CopyBody ==
    /\ pc = "f_copy"
    /\ \E e \in CopyResults :
          IF e = NoErr
          THEN /\ files' = WriteAt(files, FilePath, Raw(body))
               /\ open' = Closed(Closed(open, "outFile"), "fileBody")
               /\ pc' = "f_loop"
               /\ UNCHANGED <<gerr, snap>>
          ELSE \E part \in Prefixes(body) :
                  /\ files' = WriteAt(files, FilePath, Raw(part))
                  /\ GistReturn(e, Closed(Closed(open, "outFile"), "fileBody"), TRUE)
    /\ UNCHANGED <<token, caller, run, cancelled, gists, i, err, gid, gfiles, remaining,
                   cur, body, dirs, requests, inflight, lastResp, served, calls, prev>>

\* ------------------------------------------------------------- the caller's context
\* cmd.Context() is cancelled while the call runs.
Cancel ==
    /\ pc # "done"
    /\ ~cancelled
    /\ cancelled' = TRUE
    /\ UNCHANGED <<token, caller, run, pc, gists, i, err, gid, gfiles, remaining,
                   cur, body, gerr, dirs, files, open, requests, inflight, lastResp, served, snap,
                   calls, prev>>

Step ==
    \/ ListSend \/ ListRecv \/ ListDecode \/ MkUserDir \/ LoopCall \/ LoopEnd \/ GistFailed \/ GistDone
    \/ GistMkdir \/ GistSend \/ GistRecv \/ GistDecode \/ MkGistDir \/ WriteMeta
    \/ FileSend \/ FileLoopEnd \/ FileRecv \/ CreateFile \/ CopyBody

Next == Step \/ Cancel

\* ------------------------------------------------------------- DownloadGist, called in a row
\* A caller that calls client.DownloadGist(ctx, id, directory) for one gist ID and
\* one destination MaxRuns times, whatever each call returns.
InitTwice ==
    /\ InitCommon
    /\ caller = "gist"
    /\ pc = "g_mkdir"
    /\ gid \in GistIDs
    /\ calls = <<gid>>

\* The caller calls DownloadGist again; prev keeps what the call before did and
\* the names its directory held when this one starts.
CallAgain ==
    /\ pc = "g_ret"
    /\ caller = "gist"
    /\ run < MaxRuns
    /\ run' = run + 1
    /\ prev' = [ok |-> gerr = NoErr, names |-> gfiles, before |-> Entries(files, GistDir)]
    /\ EnterGist(gid)
    /\ UNCHANGED <<token, caller, cancelled, gists, i, err, dirs, files, open,
                   requests, inflight, lastResp, served, snap>>

\* The caller is done after the last call.
CallsDone ==
    /\ pc = "g_ret"
    /\ caller = "gist"
    /\ run = MaxRuns
    /\ Return(gerr)
    /\ UNCHANGED <<token, caller, run, cancelled, gists, i, gid, gfiles, remaining,
                   cur, body, gerr, dirs, files, open, requests, inflight, lastResp,
                   served, snap, calls, prev>>

StepTwice ==
    \/ GistMkdir \/ GistSend \/ GistRecv \/ GistDecode \/ MkGistDir \/ WriteMeta
    \/ FileSend \/ FileLoopEnd \/ FileRecv \/ CreateFile \/ CopyBody
    \/ CallAgain \/ CallsDone

NextTwice == StepTwice \/ Cancel

SpecTwice == InitTwice /\ [][NextTwice]_vars

\* The program runs on: each call and each statement returns or fails in the
\* end; only the cancellation may never come.
FairSpec == Init /\ [][Next]_vars /\ WF_vars(Step)

Spec == Init /\ [][Next]_vars
\* ------------------------------------------------------------- properties
\* Request r is about gist id: its URL names it.
Mentions(r, id) == \E k \in 1..Len(r.url) : r.url[k] = id
\* Gist id has not been touched: no request names it, nothing of it is on disk.
Untouched(id) ==
    /\ \A r \in requests : ~Mentions(r, id)
    /\ Join(UserDir, id) \notin dirs
    /\ Below(files, Join(UserDir, id)) = <<>>
\* DownloadGist has returned an error to the loop of DownloadAllGistsForUser.
GistHasFailed == caller = "all" /\ pc \in {"g_ret", "done"} /\ gerr # NoErr

\* C1: DownloadAllGistsForUser is fail-fast. When DownloadGist fails for the gist at
\* position i, the operation returns that error (wrapped) at once: an error is set
\* only in the final state, DownloadGist was called for positions 1..i only, no
\* request names a gist after position i and nothing of it is on disk, and the
\* directory of every gist before i is as its own download left it.
C1_FailFast ==
    /\ (caller = "all" /\ err # NoErr) => pc = "done"
    /\ GistHasFailed =>
          /\ i \in 1..Len(gists)
          /\ calls = SubSeq(gists, 1, i)
          /\ pc = "done" => err = WrapGist(gists[i], gerr)
          /\ \A j \in (i + 1)..Len(gists) : Untouched(gists[j])
          /\ Len(snap) = i - 1
          /\ \A k \in 1..(i - 1) : Below(files, Join(UserDir, gists[k])) = snap[k]

\* A run in which the first of two gists failed after it had written files.
C1_Witness ==
    /\ GistHasFailed /\ pc = "done"
    /\ Len(gists) = 2 /\ i = 1
    /\ Cardinality(DOMAIN Below(files, Join(UserDir, gists[1]))) = 2

\* C3: a successful DownloadAllGistsForUser over a list of N gists has called
\* DownloadGist once per gist, in the listed order, and the username directory
\* holds exactly N subdirectories, one per listed gist.
C3_OneDirPerGist ==
    (caller = "all" /\ pc = "done" /\ err = NoErr) =>
        /\ calls = gists
        /\ SubDirs(dirs, UserDir) = {Join(UserDir, gists[k]) : k \in 1..Len(gists)}
        /\ Cardinality(SubDirs(dirs, UserDir)) = Len(gists)

\* A successful run over two gists.
C3_Witness ==
    caller = "all" /\ pc = "done" /\ err = NoErr /\ Len(gists) = 2

\* The list call has failed: transport error, non-200 status or undecodable body.
ListHasFailed ==
    /\ caller = "all"
    /\ inflight.kind = "list"
    /\ pc \notin {"list_wait", "list_decode"}
    /\ ~(lastResp.kind = "response" /\ lastResp.status = StatusOK /\ lastResp.decoded)

\* C4: when the list call fails, DownloadAllGistsForUser returns an error, and
\* the filesystem is unchanged: no username directory, no file, no DownloadGist
\* call, no request but the list request.
C4_ListFailure ==
    ListHasFailed =>
        /\ pc = "done"
        /\ err # NoErr
        /\ dirs = {}
        /\ files = <<>>
        /\ calls = <<>>
        /\ requests = {ListRequest}

\* The list call answered with a status other than 200.
C4_Witness ==
    ListHasFailed /\ lastResp.kind = "response" /\ lastResp.status \in BadStatuses

\* DownloadGist has returned nil for a gist whose file mapping is not empty.
GistSucceeded == pc = "g_ret" /\ gerr = NoErr /\ gfiles # {}

\* C2: after a successful DownloadGist of a gist with a non-empty file mapping,
\* the gist directory holds exactly one file per mapping entry plus metadata.json,
\* |files| + 1 entries, and each file named after an entry holds the bytes its
\* raw URL served.
C2_ExactFiles ==
    GistSucceeded =>
        /\ Cardinality(Entries(files, GistDir)) = Cardinality(gfiles) + 1
        /\ Entries(files, GistDir) = gfiles \cup {"metadata.json"}
        /\ \A f \in gfiles : files[Join(GistDir, f)] = Raw(served[gid][f])

\* Error e names s in one of its frames.
Identifies(e, s) == \E f \in 1..Len(e) : \E k \in 1..Len(e[f]) : e[f][k] = s

\* C5: when the raw fetch of a file answers with a status other than 200,
\* DownloadGist returns at once an error that names the file, without having
\* created or written anything; and once DownloadGist has returned an error no
\* request is made and nothing is written any more.
C5_RawStatus ==
    /\ [][(pc = "f_wait" /\ pc' # "f_wait"
             /\ lastResp'.kind = "response" /\ lastResp'.status # StatusOK)
           => /\ pc' = "g_ret"
              /\ gerr' = FileStatusErr(cur, lastResp'.status)
              /\ Identifies(gerr', cur)
              /\ files' = files /\ dirs' = dirs /\ requests' = requests
              /\ open'.outFile = 0]_vars
    /\ [][(caller = "all" /\ pc = "g_ret" /\ gerr # NoErr)
           => /\ pc' \in {"g_ret", "done"}
              /\ files' = files /\ dirs' = dirs /\ requests' = requests]_vars

\* The first of two files answered 404: the other one is still to be visited.
C5_Witness ==
    /\ pc = "g_ret"
    /\ lastResp.kind = "response" /\ lastResp.status \in BadStatuses
    /\ inflight.kind = "raw"
    /\ remaining # {}
    /\ Join(GistDir, cur) \notin DOMAIN files

\* C7: every request handed to the transport carries Authorization: token <token>
\* when the client has a token, and no Authorization header when it has none.
C7_Authorization ==
    \A r \in requests :
        LET auth == {h \in r.headers : h[1] = "Authorization"} IN
        IF token = ""
        THEN auth = {}
        ELSE auth = {<<"Authorization", "token " \o token>>}

\* A run with a token that has made a list, a detail and a raw request.
C7_Witness ==
    /\ token # ""
    /\ {r.kind : r \in requests} = {"list", "detail", "raw"}

\* C10: no resource outlives the operation that opened it. At most one raw
\* response body and one output file are open at any moment; none is open
\* between two files; the list body is closed once GetGistsForUser has returned;
\* nothing is open once DownloadGist or the caller's invocation has returned.
C10_Resources ==
    /\ open.fileBody <= 1 /\ open.outFile <= 1
    /\ open.gistBody <= 1 /\ open.listBody <= 1
    /\ pc = "f_loop" => (open.fileBody = 0 /\ open.outFile = 0)
    /\ pc \notin {"list_send", "list_wait", "list_decode"} => open.listBody = 0
    /\ pc \in {"list_send", "list_wait", "mk_userdir", "loop", "g_mkdir", "g_send", "g_wait"}
          => open = NoneOpen
    /\ pc \in {"g_ret", "done"} => open = NoneOpen

\* DownloadGist has returned because os.Create failed, the raw response in hand.
C10_Witness ==
    /\ pc = "g_ret"
    /\ cur # NoFile
    /\ \E c \in FsCauses : gerr = PathErr("open", FilePath, c)

\* DownloadGist has returned nil for the second time in a row or later.
SecondRunDone == caller = "gist" /\ pc = "g_ret" /\ run >= 2 /\ gerr = NoErr /\ prev.ok
\* Each file of the mapping holds the bytes this run was served.
FetchedOnDisk ==
    \A f \in gfiles :
        /\ Join(GistDir, f) \in DOMAIN files
        /\ files[Join(GistDir, f)] = Raw(served[gid][f])

\* C6 as claimed: after DownloadGist ran twice in a row on one gist ID and
\* destination, the gist directory holds the names the second run fetched plus
\* metadata.json, with the contents the second run fetched, and no file under a
\* name the gist no longer has.
C6_NoStaleNames ==
    SecondRunDone =>
        /\ Entries(files, GistDir) = gfiles \cup {"metadata.json"}
        /\ FetchedOnDisk

\* C6 as amended: after the second run every file it fetched holds the bytes it
\* was served and metadata.json is there, no name twice; DownloadGist removes
\* nothing, so the directory holds the names the second run wrote together with
\* the names that were there when it started, and no stale name is left exactly
\* when every name that was there is still a name of the gist.
C6_OverwriteOnly ==
    SecondRunDone =>
        /\ FetchedOnDisk
        /\ MetaPath \in DOMAIN files
        /\ "metadata.json" \notin gfiles => files[MetaPath] = MetadataBytes(gid, gfiles)
        /\ prev.names \cup {"metadata.json"} \subseteq prev.before
        /\ Entries(files, GistDir) = gfiles \cup {"metadata.json"} \cup prev.before
        /\ (Entries(files, GistDir) = gfiles \cup {"metadata.json"})
              <=> (prev.before \subseteq gfiles \cup {"metadata.json"})

\* The first run fetched a.txt, the second run found the gist without it.
C6_Witness ==
    /\ SecondRunDone
    /\ run = 2
    /\ prev.names = {"a.txt"}
    /\ gfiles = {}
    /\ "a.txt" \in Entries(files, GistDir)

\* The strings that name an operation in an error.
OperationNames == {"Get", "parse", "mkdir", "open", "write", "GitHub API error",
                   "Failed to download file", "Failed to download gist"}
IdentifiesOperation(e) == \E f \in 1..Len(e) : e[f][1] \in OperationNames
\* The caller's invocation of DownloadAllGistsForUser has returned an error.
Failed == caller = "all" /\ pc = "done" /\ err # NoErr
\* The failure was in the loop over the files of a gist, at file cur.
FailedAtFile == Failed /\ calls # <<>> /\ cur # NoFile

\* C9 as claimed: every error the pipeline returns names the operation that
\* failed, the gist when the failure is inside a gist's download, and the file
\* when the failure concerns a file, with the underlying cause.
C9_FullContext ==
    Failed =>
        /\ IdentifiesOperation(err)
        /\ calls # <<>> => Identifies(err, gid)
        /\ FailedAtFile => Identifies(err, cur)

\* C9 as amended: DownloadAllGistsForUser wraps exactly the errors of DownloadGist,
\* with the gist ID and the cause as DownloadGist returned it; an error of the
\* list call or of creating the username directory is returned as it is; and
\* DownloadGist adds context of its own (the filename and the status) only for
\* a raw fetch that answered other than 200.
C9_GistContext ==
    Failed =>
        /\ calls = <<>> => (Len(err) = 1 /\ gerr = NoErr)
        /\ calls # <<>> =>
              /\ gerr # NoErr
              /\ i \in 1..Len(gists) /\ gid = gists[i]
              /\ err = << <<"Failed to download gist", gid>> >> \o gerr
              /\ Len(gerr) = 1
        /\ (FailedAtFile /\ lastResp.kind = "response" /\ lastResp.status # StatusOK)
              => gerr = << <<"Failed to download file", cur, lastResp.status>> >>
        /\ (calls # <<>> /\ gerr[1][1] = "Failed to download file") 
              => (FailedAtFile /\ lastResp.kind = "response" /\ lastResp.status # StatusOK)

\* The body of a file broke off while it was copied: the error names the gist only.
C9_Witness ==
    /\ FailedAtFile
    /\ gerr = ReadErr
    /\ ~Identifies(err, cur)

\* An HTTP call is in flight: httpClient.Do has been called and has not returned.
InFlight == pc \in {"list_wait", "g_wait", "f_wait"}

=============================================================================
